---------------------------- MODULE Spec2Model ----------------------------
(***************************************************************************)
(* conda-mirror: the mirroring engine of src/src/lib.rs.                   *)
(*                                                                         *)
(* mirror() spawns one mirror_subdir task per subdir; each subdir task     *)
(* fetches the source repodata, lists the destination, plans deletes and   *)
(* adds, runs them as spawned package tasks gated by one shared semaphore, *)
(* and writes the new repodata.json last.                                  *)
(*                                                                         *)
(* Tasks are tokio tasks.  FuturesUnordered::clear() drops the JoinHandles *)
(* it holds; dropping a JoinHandle detaches the task, it does not abort    *)
(* it, so the package tasks and subdir tasks keep their own steps after    *)
(* their parent has returned an error.                                     *)
(***************************************************************************)
EXTENDS Naturals, Integers, Sequences, FiniteSets, TLC

(***************************************************************************)
(* Bounds of the model.                                                    *)
(***************************************************************************)
\* payloads a source can serve for an archive are 1..NBytes
NBytes == 2
\* mirror() is invoked at most MaxRuns times in a row on one destination
MaxRuns == 2
\* size of the contended permit pool of SpecContended
SmallPool == 2

(***************************************************************************)
(* Program constants.                                                      *)
(***************************************************************************)
\* lib.rs:121  let max_parallel = 32;
max_parallel == 32

(***************************************************************************)
(* Universe of values.                                                     *)
(***************************************************************************)
\* Option<T>: None, or Some(x) with x = opt[1]
None == <<>>
Some(x) == <<x>>

\* what the destination holds under a key: nothing, a file with its bytes, or
\* an entry whose mode is not file (a directory, a prefix)
Absent == <<>>
File(buf) == <<buf>>
Dir == <<0>>
\* entry.metadata().mode().is_file()
IsFile(entry) == entry # Absent /\ entry # Dir

\* Platform::all(), cut down to two platforms, in enumeration order
Platforms == <<"noarch", "linux-64">>
PlatformSet == {Platforms[k] : k \in 1..Len(Platforms)}

\* a filename is <<stem, extension>>
TarBz2A == <<"a-1.0-0", ".tar.bz2">>
CondaB == <<"b-2.0-0", ".conda">>
\* a name that is no archive name, and a name only directories carry
IndexHtml == <<"index", ".html">>
OldConda == <<"old-0.1-0", ".conda">>
Filenames == {TarBz2A, CondaB, IndexHtml, OldConda}
RepodataJson == <<"repodata", ".json">>

Bytes == 1..NBytes

\* rattler_conda_types::package::ArchiveType::try_from(filename):
\* decided by the filename's extension
ArchiveType(filename) ==
    IF filename[2] = ".conda" THEN "Conda"
    ELSE IF filename[2] = ".tar.bz2" THEN "TarBz2"
    ELSE "None"

\* compute_bytes_digest::<Sha256>(buf): collision free on the payloads
Sha256(buf) == <<"sha256", buf>>


(***************************************************************************)
(* Data model: package records, repodata, match rules, mirror modes.       *)
(***************************************************************************)
\* a PackageRecord, reduced to the fields the engine and the rules read
PackageRecord(name, version, sha256) ==
    [name |-> name, version |-> version, sha256 |-> sha256]

RecordA == PackageRecord(<<"a">>, "1.0", Some(Sha256(1)))
RecordB == PackageRecord(<<"b">>, "2.0", None)
RecordIndex == PackageRecord(<<"index">>, "0.1", None)

EmptyMap == [f \in {} |-> None]

\* RepoData { info, packages, conda_packages, removed, version }
RepoData(info, packages, conda_packages, removed, version) ==
    [info |-> info, packages |-> packages, conda_packages |-> conda_packages,
     removed |-> removed, version |-> version]

RepoAB == RepoData("info-ab", TarBz2A :> RecordA, CondaB :> RecordB, {"r-0.1-0.conda"}, "v1")
RepoB == RepoData("info-b", EmptyMap, CondaB :> RecordB, {}, "v2")
RepoEmpty == RepoData("info-empty", EmptyMap, EmptyMap, {}, "v1")
\* a manifest that parses with its partitions mixed up: a .conda key in
\* `packages`, a .tar.bz2 key in `packages.conda`, one filename in both maps
RepoMixed ==
    RepoData("info-mixed", CondaB :> RecordB, TarBz2A :> RecordA @@ CondaB :> RecordB,
             {}, "v1")
\* a manifest that parses with a key that is no archive name
RepoIndex ==
    RepoData("info-index", IndexHtml :> RecordIndex, CondaB :> RecordB, {}, "v1")

\* glob::Pattern::matches(name): a literal prefix, optionally followed by `*`
GlobMatches(name_glob, name) ==
    IF name_glob.star
    THEN /\ Len(name_glob.literal) <= Len(name)
         /\ SubSeq(name, 1, Len(name_glob.literal)) = name_glob.literal
    ELSE name = name_glob.literal

\* NamelessMatchSpec::matches(record): the version constraint, when given
NamelessMatches(matchspec, package_record) ==
    matchspec.version = None \/ matchspec.version = Some(package_record.version)

\* MatchSpec::matches(record): name and version constraints
MatchSpecMatches(matchspec, package_record) ==
    /\ matchspec.name = None \/ matchspec.name = Some(package_record.name)
    /\ NamelessMatches(matchspec, package_record)

\* PackageConfig::matches
matches(rule, package_record) ==
    IF rule.kind = "PackageGlob"
    THEN LET name_match == GlobMatches(rule.name_glob, package_record.name)
         IN  IF rule.matchspec # None
             THEN name_match /\ NamelessMatches(rule.matchspec[1], package_record)
             ELSE name_match
    ELSE MatchSpecMatches(rule.matchspec, package_record)

PackageGlob(name_glob, matchspec) ==
    [kind |-> "PackageGlob", name_glob |-> name_glob, matchspec |-> matchspec]

\* PackageConfig::MatchSpec(matchspec)
MatchSpecRule(matchspec) == [kind |-> "MatchSpec", matchspec |-> matchspec]

\* `a*`
GlobAStar == PackageGlob([literal |-> <<"a">>, star |-> TRUE], None)
\* `b`
GlobB == PackageGlob([literal |-> <<"b">>, star |-> FALSE], None)
\* `*` with the matchspec `2.0`
GlobStar20 == PackageGlob([literal |-> <<>>, star |-> TRUE], Some([version |-> Some("2.0")]))
\* the matchspec `a 9.9`
SpecA99 == MatchSpecRule([name |-> Some(<<"a">>), version |-> Some("9.9")])

\* faulty variant: `all` in place of `any`
AnyMatches_All(rules, package_record) ==
    \A k \in 1..Len(rules) : matches(rules[k], package_record)

\* rules.iter().any(|i| i.matches(package_record))
AnyMatches(rules, package_record) ==
    \E k \in 1..Len(rules) : matches(rules[k], package_record)

MirrorMode(kind, include, exclude) ==
    [kind |-> kind, include |-> include, exclude |-> exclude]

ModeAll == MirrorMode("All", <<>>, <<>>)
ModeAllButExcludeA == MirrorMode("AllButExclude", <<>>, <<GlobAStar>>)

\* HashMap::extend: the entries of `more` replace those of `map`
Extend(map, more) ==
    [f \in DOMAIN map \cup DOMAIN more |->
        IF f \in DOMAIN more THEN more[f] ELSE map[f]]

Restrict(map, keys) == [f \in keys |-> map[f]]

\* faulty variant: IncludeExclude as its documentation has it, include rules
\* overriding the exclude rules
get_packages_to_mirror_Rescue(repodata, mode) ==
    LET all_packages == Extend(Extend(EmptyMap, repodata.packages),
                               repodata.conda_packages)
        keep(p) ==
            CASE mode.kind = "All" -> TRUE
              [] mode.kind = "OnlyInclude" -> AnyMatches(mode.include, p)
              [] mode.kind = "AllButExclude" -> ~AnyMatches(mode.exclude, p)
              [] mode.kind = "IncludeExclude" ->
                   ~AnyMatches(mode.exclude, p) \/ AnyMatches(mode.include, p)
    IN  Restrict(all_packages, {f \in DOMAIN all_packages : keep(all_packages[f])})

\* faulty variant: the `!` of the AllButExclude filter dropped
get_packages_to_mirror_ExcludeKept(repodata, mode) ==
    LET all_packages == Extend(Extend(EmptyMap, repodata.packages),
                               repodata.conda_packages)
        keep(p) ==
            CASE mode.kind = "All" -> TRUE
              [] mode.kind = "OnlyInclude" -> AnyMatches(mode.include, p)
              [] mode.kind = "AllButExclude" -> AnyMatches(mode.exclude, p)
              [] mode.kind = "IncludeExclude" ->
                   ~(\E k \in 1..Len(mode.exclude) :
                        matches(mode.exclude[k], p) \/ AnyMatches(mode.include, p))
    IN  Restrict(all_packages, {f \in DOMAIN all_packages : keep(all_packages[f])})

\* lines 182-212
get_packages_to_mirror(repodata, mode) ==
    LET all_packages == Extend(Extend(EmptyMap, repodata.packages),
                               repodata.conda_packages)
        keep(p) ==
            CASE mode.kind = "All" -> TRUE
              [] mode.kind = "OnlyInclude" -> AnyMatches(mode.include, p)
              [] mode.kind = "AllButExclude" -> ~AnyMatches(mode.exclude, p)
              [] mode.kind = "IncludeExclude" ->
                   ~(\E k \in 1..Len(mode.exclude) :
                        matches(mode.exclude[k], p) \/ AnyMatches(mode.include, p))
    IN  Restrict(all_packages, {f \in DOMAIN all_packages : keep(all_packages[f])})

(***************************************************************************)
(* The reconciliation plan of mirror_subdir.                               *)
(***************************************************************************)
\* faulty variant: the listing filter recognises .tar.bz2 only
AvailablePackages_OnlyTarBz2(listing) ==
    {f \in DOMAIN listing : IsFile(listing[f]) /\ ArchiveType(f) = "TarBz2"}

\* the archive files a listing of <subdir>/ shows
AvailablePackages(listing) ==
    {f \in DOMAIN listing : IsFile(listing[f]) /\ ArchiveType(f) # "None"}

\* faulty variant: the set difference taken the other way round
PackagesToDelete_Reversed(available, packages_to_mirror) ==
    DOMAIN packages_to_mirror \ available

PackagesToDelete(available, packages_to_mirror) ==
    available \ DOMAIN packages_to_mirror

\* faulty variant: no filter, every package to mirror is added again
PackagesToAdd_All(available, packages_to_mirror) == packages_to_mirror

\* faulty variant: the `!` of `!available_packages.contains(&filename)` dropped
PackagesToAdd_Inverted(available, packages_to_mirror) ==
    Restrict(packages_to_mirror,
             {f \in DOMAIN packages_to_mirror : f \in available})

PackagesToAdd(available, packages_to_mirror) ==
    Restrict(packages_to_mirror,
             {f \in DOMAIN packages_to_mirror : f \notin available})

\* lines 521-523 and 534-536: the filter closures meet a key that is no
\* archive name and run into unreachable!()
ReachesUnreachable(packages_to_mirror) ==
    \E f \in DOMAIN packages_to_mirror : ArchiveType(f) = "None"

\* faulty variant: the partitions are those of the source manifest
NewRepodata_SourcePartitions(repodata, packages_to_mirror) ==
    RepoData(repodata.info,
             Restrict(packages_to_mirror,
                      DOMAIN packages_to_mirror \cap DOMAIN repodata.packages),
             Restrict(packages_to_mirror,
                      DOMAIN packages_to_mirror \cap DOMAIN repodata.conda_packages),
             repodata.removed,
             repodata.version)

\* faulty variant: `removed` starts empty instead of being taken from the source
NewRepodata_RemovedDropped(repodata, packages_to_mirror) ==
    RepoData(repodata.info,
             Restrict(packages_to_mirror,
                      {f \in DOMAIN packages_to_mirror : ArchiveType(f) = "TarBz2"}),
             Restrict(packages_to_mirror,
                      {f \in DOMAIN packages_to_mirror : ArchiveType(f) = "Conda"}),
             {},
             repodata.version)

\* faulty variant: every record of the source manifest is emitted, filtered or not
NewRepodata_Unfiltered(repodata, packages_to_mirror) ==
    LET all_packages == Extend(repodata.packages, repodata.conda_packages)
    IN  RepoData(repodata.info,
                 Restrict(all_packages,
                          {f \in DOMAIN all_packages : ArchiveType(f) = "TarBz2"}),
                 Restrict(all_packages,
                          {f \in DOMAIN all_packages : ArchiveType(f) = "Conda"}),
                 repodata.removed,
                 repodata.version)

\* faulty variant: records without a SHA-256 are left out of the manifest
NewRepodata_OnlyHashed(repodata, packages_to_mirror) ==
    RepoData(repodata.info,
             Restrict(packages_to_mirror,
                      {f \in DOMAIN packages_to_mirror :
                          ArchiveType(f) = "TarBz2" /\ packages_to_mirror[f].sha256 # None}),
             Restrict(packages_to_mirror,
                      {f \in DOMAIN packages_to_mirror :
                          ArchiveType(f) = "Conda" /\ packages_to_mirror[f].sha256 # None}),
             repodata.removed,
             repodata.version)

\* the rebuilt manifest: partitions by archive type, the rest from the source
NewRepodata(repodata, packages_to_mirror) ==
    RepoData(repodata.info,
             Restrict(packages_to_mirror,
                      {f \in DOMAIN packages_to_mirror : ArchiveType(f) = "TarBz2"}),
             Restrict(packages_to_mirror,
                      {f \in DOMAIN packages_to_mirror : ArchiveType(f) = "Conda"}),
             repodata.removed,
             repodata.version)

\* the filenames a manifest lists
ManifestKeys(manifest) ==
    DOMAIN manifest.packages \cup DOMAIN manifest.conda_packages

(***************************************************************************)
(* Errors.                                                                 *)
(***************************************************************************)
\* an I/O error turned into a report by into_diagnostic()
IoError(op) ==
    [kind |-> op, filename |-> None, expected |-> None, digest |-> None]

\* Ok(()), and the result of a task that has not returned
Ok == [kind |-> "ok", filename |-> None, expected |-> None, digest |-> None]
NotReturned == [kind |-> "running", filename |-> None, expected |-> None, digest |-> None]

\* miette!("Task panicked: {}", join_err)
TaskPanicked == [kind |-> "task_panicked", filename |-> None, expected |-> None, digest |-> None]

\* miette!("Digest of {} does not match: {:x} != {:x}", filename, expected, digest)
DigestError(filename, expected_digest, digest) ==
    [kind |-> "digest", filename |-> Some(filename),
     expected |-> Some(expected_digest), digest |-> Some(digest)]

\* the miette!(...) errors of get_client and of mirror's destination setup
SetupError(message) ==
    [kind |-> message, filename |-> None, expected |-> None, digest |-> None]

(***************************************************************************)
(* CondaMirrorConfig: where the job reads and writes.                      *)
(***************************************************************************)
\* NamedChannelOrUrl, as far as the setup looks at it: the variant, the scheme
\* of the URL it is or resolves to, and whether that URL has a host
Url(scheme, host) == [variant |-> "Url", scheme |-> scheme, host |-> host]
Path == [variant |-> "Path", scheme |-> "file", host |-> FALSE]
Name == [variant |-> "Name", scheme |-> "https", host |-> TRUE]

HttpsUrl == Url("https", TRUE)
S3Url == Url("s3", TRUE)
S3UrlNoHost == Url("s3", FALSE)
FtpUrl == Url("ftp", TRUE)

S3Config == Some("s3_config")
S3Credentials == Some("s3_credentials")

\* what AuthenticationStorage::get_by_url gives for the destination URL
AuthS3Credentials == Some("S3Credentials")
AuthBearerToken == Some("BearerToken")
AuthStorages == {None, AuthS3Credentials, AuthBearerToken}

CondaMirrorConfig(src, dst, subdir_list, mode, cfg_src, cfg_dst, cred_src, cred_dst) ==
    [source |-> src, destination |-> dst, subdirs |-> subdir_list, mode |-> mode,
     s3_config_source |-> cfg_src, s3_config_destination |-> cfg_dst,
     s3_credentials_source |-> cred_src, s3_credentials_destination |-> cred_dst]

\* jobs from an https channel to a local directory, without S3 settings
FileJobs(subdir_lists, modes) ==
    {CondaMirrorConfig(HttpsUrl, Path, l, m, None, None, None, None) :
         l \in subdir_lists, m \in modes}

(***************************************************************************)
(* State.                                                                  *)
(***************************************************************************)
VARIABLES
    config,             \* the CondaMirrorConfig of the job
    auth_storage,       \* what the authentication storage holds for the destination URL
    source,             \* source channel: subdir -> its repodata.json
    dest_files,         \* destination: subdir -> filename -> bytes, or Absent
    dest_repodata,      \* destination: subdir -> <subdir>/repodata.json, or None
    mirror_pc,          \* position of mirror()
    mirror_result,      \* what mirror() returned
    subdirs,            \* the subdirs mirror() got from get_subdirs
    probes,             \* the platforms get_subdirs probed at the source
    sub_pc,             \* position of each mirror_subdir task
    sub_result,         \* what each mirror_subdir task returned
    repodata,           \* each subdir task's parsed source repodata
    available_packages, \* each subdir task's listing of destination archives
    delete_tasks,       \* the spawned delete tasks of each subdir task
    add_tasks,          \* the spawned add tasks of each subdir task
    permits,            \* permits available in the semaphore
    pool,               \* permits the semaphore was created with
    run,                \* number of the current call of mirror()
    ops                 \* destination operations completed in the current run

vars == <<config, auth_storage, source, dest_files, dest_repodata, mirror_pc, mirror_result,
          subdirs, probes, sub_pc, sub_result, repodata, available_packages,
          delete_tasks, add_tasks, permits, pool, run, ops>>

job_vars == <<config, auth_storage, source, pool, run>>
mirror_vars == <<mirror_pc, mirror_result, subdirs, probes>>
plan_vars == <<repodata, available_packages>>

TaskIds == 1..Len(Platforms)
Spawned == 1..Len(subdirs)

NoAddTask == [st |-> "none", buf |-> None, err |-> NotReturned]
AddTask(st, buf, err) == [st |-> st, buf |-> buf, err |-> err]

DestOp(op, subdir, filename) == [op |-> op, subdir |-> subdir, filename |-> filename]

packages_to_mirror(i) == get_packages_to_mirror(repodata[i][1], config.mode)
packages_to_delete(i) == PackagesToDelete(available_packages[i], packages_to_mirror(i))
packages_to_add(i) == PackagesToAdd(available_packages[i], packages_to_mirror(i))

\* a package task holds a permit from its acquire to its return
DeleteHoldsPermit(i, f) == delete_tasks[i][f] = "deleting"
AddHoldsPermit(i, f) == add_tasks[i][f].st \in {"fetching", "verifying", "writing"}
PermitsHeld ==
    Cardinality({<<i, f>> \in TaskIds \X Filenames : DeleteHoldsPermit(i, f)})
    + Cardinality({<<i, f>> \in TaskIds \X Filenames : AddHoldsPermit(i, f)})

(***************************************************************************)
(* Initial states: a job, a source channel and a destination.              *)
(***************************************************************************)
SubdirChoices == {None, Some(<<"noarch">>)}
Modes == {ModeAll, ModeAllButExcludeA}
SourceRepodatas == {Some(RepoAB), Some(RepoB), Some(RepoEmpty)}

NoFiles == [f \in Filenames |-> Absent]
DestListings ==
    {NoFiles,
     [NoFiles EXCEPT ![TarBz2A] = File(1)],
     [NoFiles EXCEPT ![TarBz2A] = File(NBytes)],
     [NoFiles EXCEPT ![TarBz2A] = File(1), ![CondaB] = File(1)]}

\* the manifest a destination holds before the first run: one that lists
\* the archives present, as an earlier mirror run left it
OldRepodata(listing) ==
    IF AvailablePackages(listing) = {} THEN None
    ELSE Some(NewRepodata(RepoData("info-old", EmptyMap, EmptyMap, {}, "v0"),
                          [f \in AvailablePackages(listing) |->
                             PackageRecord(<<f[1]>>, "0.0", None)]))

\* the state mirror() is first called in, for a job of `configs`, a source of
\* `sources` and a destination of `dests`
InitJob(p, configs, auths, sources, dests) ==
    /\ config \in configs
    /\ auth_storage \in auths
    /\ source \in sources
    /\ dest_files \in dests
    /\ dest_repodata = [s \in PlatformSet |-> OldRepodata(dest_files[s])]
    /\ mirror_pc = "start"
    /\ mirror_result = NotReturned
    /\ subdirs = <<>>
    /\ probes = <<>>
    /\ sub_pc = [i \in TaskIds |-> "idle"]
    /\ sub_result = [i \in TaskIds |-> NotReturned]
    /\ repodata = [i \in TaskIds |-> None]
    /\ available_packages = [i \in TaskIds |-> {}]
    /\ delete_tasks = [i \in TaskIds |-> [f \in Filenames |-> "none"]]
    /\ add_tasks = [i \in TaskIds |-> [f \in Filenames |-> NoAddTask]]
    /\ permits = p
    /\ pool = p
    /\ run = 1
    /\ ops = {}

\* the same for jobs between an https source and a directory, which need no
\* stored credentials
InitOf(p, configs, sources, dests) == InitJob(p, configs, {None}, sources, dests)

InitWith(p) ==
    InitOf(p, FileJobs(SubdirChoices, Modes),
           [PlatformSet -> SourceRepodatas], [PlatformSet -> DestListings])

Init == InitWith(max_parallel)

(***************************************************************************)
(* mirror(): discover the subdirs, spawn one mirror_subdir task for each,  *)
(* then wait for them.                                                     *)
(***************************************************************************)
\* lines 578-594: <subdir>/repodata.json exists at the source (the path
\* exists, or HEAD answers 2xx)
ProbeSucceeds(src, s) == src[s] # None

\* faulty variant: every platform of the universe is pushed, whatever the probe says
get_subdirs_NoProbeTest(cfg, src) ==
    IF cfg.subdirs # None THEN cfg.subdirs[1]
    ELSE Platforms

\* get_subdirs: the explicit list, or the platforms whose repodata.json the
\* source has
get_subdirs(cfg, src) ==
    IF cfg.subdirs # None THEN cfg.subdirs[1]
    ELSE SelectSeq(Platforms, LAMBDA s : ProbeSucceeds(src, s))

\* the platforms get_subdirs probes, in order: none for an explicit list
get_subdirs_probes(cfg) ==
    IF cfg.subdirs # None THEN <<>> ELSE Platforms

\* lines 609-657 of get_client: an s3 source needs a host and its S3 settings,
\* and source credentials are only accepted for an s3 URL
get_client(cfg) ==
    IF cfg.source.variant = "Url" /\ cfg.source.scheme = "s3" /\ ~cfg.source.host
        THEN SetupError("Invalid S3 url")
    ELSE IF cfg.source.variant = "Url" /\ cfg.source.scheme = "s3"
                /\ cfg.s3_config_source = None
        THEN SetupError("No S3 source config set")
    ELSE IF cfg.s3_credentials_source # None /\ cfg.source.variant # "Url"
        THEN SetupError("Source is not an S3 URL")
    ELSE IF cfg.s3_credentials_source # None /\ cfg.source.scheme # "s3"
        THEN SetupError("Invalid S3 URL")
    ELSE Ok

\* faulty variant: the match on the scheme has no `_` arm and every other
\* scheme is served like a directory
opendal_config_AnyScheme(cfg, auth) ==
    IF cfg.destination.scheme # "s3" THEN Ok
    ELSE IF cfg.s3_config_destination = None
        THEN SetupError("No S3 destination config set")
    ELSE IF ~cfg.destination.host
        THEN SetupError("No bucket in S3 URL")
    ELSE IF cfg.s3_credentials_destination = None /\ auth # AuthS3Credentials
        THEN SetupError("Missing S3 credentials")
    ELSE Ok

\* lines 45-110: the match on the scheme of the destination URL
opendal_config(cfg, auth) ==
    IF cfg.destination.scheme = "file" THEN Ok
    ELSE IF cfg.destination.scheme # "s3"
        THEN SetupError("Unsupported scheme in destination")
    ELSE IF cfg.s3_config_destination = None
        THEN SetupError("No S3 destination config set")
    ELSE IF ~cfg.destination.host
        THEN SetupError("No bucket in S3 URL")
    ELSE IF cfg.s3_credentials_destination = None /\ auth # AuthS3Credentials
        THEN SetupError("Missing S3 credentials")
    ELSE Ok

\* lines 37-110, in the order of the code: the client, then the destination
MirrorSetup(cfg, auth) ==
    IF get_client(cfg) # Ok THEN get_client(cfg) ELSE opendal_config(cfg, auth)

\* lines 37-110: mirror() returns the error of its setup; for a directory the
\* path may also fail to canonicalize (lines 48-52)
MirrorSetupErr ==
    /\ mirror_pc = "start"
    /\ \/ /\ MirrorSetup(config, auth_storage) # Ok
          /\ mirror_result' = MirrorSetup(config, auth_storage)
       \/ /\ get_client(config) = Ok
          /\ config.destination.scheme = "file"
          /\ mirror_result' = SetupError("Could not canonicalize path")
    /\ mirror_pc' = "err"
    /\ UNCHANGED <<job_vars, dest_files, dest_repodata, subdirs, probes, sub_pc,
                   sub_result, plan_vars, delete_tasks, add_tasks, permits, ops>>

\* lines 118-160: the subdir list, the semaphore, one spawned task per subdir
MirrorSpawn ==
    /\ mirror_pc = "start"
    /\ MirrorSetup(config, auth_storage) = Ok
    /\ subdirs' = get_subdirs(config, source)
    /\ probes' = get_subdirs_probes(config)
    /\ sub_pc' = [i \in TaskIds |->
                    IF i <= Len(subdirs') THEN "fetch_repodata" ELSE "idle"]
    /\ permits' = pool
    /\ mirror_pc' = "join"
    /\ UNCHANGED <<job_vars, dest_files, dest_repodata, mirror_result, sub_result,
                   plan_vars, delete_tasks, add_tasks, ops>>

\* lines 118 and 585-589: the HEAD request of the k-th probe fails to be sent;
\* get_subdirs returns the error and mirror() returns it
MirrorProbeErr ==
    /\ mirror_pc = "start"
    /\ MirrorSetup(config, auth_storage) = Ok
    /\ config.subdirs = None
    /\ \E k \in 1..Len(Platforms) : probes' = SubSeq(Platforms, 1, k)
    /\ mirror_pc' = "err"
    /\ mirror_result' = IoError("get_subdirs")
    /\ UNCHANGED <<job_vars, dest_files, dest_repodata, subdirs, sub_pc, sub_result,
                   plan_vars, delete_tasks, add_tasks, permits, ops>>

\* A join loop (`while let Some(r) = tasks.next().await`) takes the results of
\* finished tasks one by one, in the order they finish; Ok results are only
\* collected.  The loop therefore ends with Ok exactly when every task has
\* returned Ok, and it can end with Err(e) at any time after some task has
\* returned Err(e); each loop is modelled by these two outcomes.

\* the join loop took Ok from every subdir task
MirrorJoinedAll == \A i \in Spawned : sub_pc[i] = "ok"

\* lines 162-179: every join result was Ok(Ok(_))
MirrorOk ==
    /\ mirror_pc = "join"
    /\ MirrorJoinedAll
    /\ mirror_pc' = "ok"
    /\ mirror_result' = Ok
    /\ UNCHANGED <<job_vars, dest_files, dest_repodata, subdirs, probes, sub_pc, sub_result,
                   plan_vars, delete_tasks, add_tasks, permits, ops>>

\* lines 165-174: the first Ok(Err(e)) or Err(join_err) the loop meets;
\* tasks.clear() drops the other JoinHandles, which leaves their tasks running
MirrorErr ==
    /\ mirror_pc = "join"
    /\ \E i \in Spawned :
         \/ /\ sub_pc[i] = "err"
            /\ mirror_result' = sub_result[i]
         \/ /\ sub_pc[i] = "panicked"
            /\ mirror_result' = TaskPanicked
    /\ mirror_pc' = "err"
    /\ UNCHANGED <<job_vars, dest_files, dest_repodata, subdirs, probes, sub_pc, sub_result,
                   plan_vars, delete_tasks, add_tasks, permits, ops>>

\* the caller runs mirror() again on the destination a successful run left
MirrorAgain ==
    /\ mirror_pc = "ok"
    /\ run < MaxRuns
    /\ run' = run + 1
    /\ mirror_pc' = "start"
    /\ mirror_result' = NotReturned
    /\ subdirs' = <<>>
    /\ probes' = <<>>
    /\ sub_pc' = [i \in TaskIds |-> "idle"]
    /\ sub_result' = [i \in TaskIds |-> NotReturned]
    /\ repodata' = [i \in TaskIds |-> None]
    /\ available_packages' = [i \in TaskIds |-> {}]
    /\ delete_tasks' = [i \in TaskIds |-> [f \in Filenames |-> "none"]]
    /\ add_tasks' = [i \in TaskIds |-> [f \in Filenames |-> NoAddTask]]
    /\ permits' = pool
    /\ ops' = {}
    /\ UNCHANGED <<config, auth_storage, source, pool, dest_files, dest_repodata>>

(***************************************************************************)
(* mirror_subdir(subdirs[i]).                                              *)
(***************************************************************************)
SubReturnErr(i, e) ==
    /\ sub_pc' = [sub_pc EXCEPT ![i] = "err"]
    /\ sub_result' = [sub_result EXCEPT ![i] = e]

\* faulty variant: a manifest that cannot be fetched or parsed is taken for an
\* empty one and the task goes on to list the destination
SubFetchRepodata_EmptyOnError(i) ==
    /\ sub_pc[i] = "fetch_repodata"
    /\ repodata' = [repodata EXCEPT ![i] =
                       IF source[subdirs[i]] # None THEN source[subdirs[i]]
                       ELSE Some(RepoEmpty)]
    /\ sub_pc' = [sub_pc EXCEPT ![i] = "list"]
    /\ UNCHANGED <<job_vars, mirror_vars, dest_files, dest_repodata, sub_result,
                   available_packages, delete_tasks, add_tasks, permits, ops>>

\* lines 430-449: fetch and parse <subdir>/repodata.json of the source
SubFetchRepodata(i) ==
    /\ sub_pc[i] = "fetch_repodata"
    /\ \/ /\ source[subdirs[i]] # None
          /\ repodata' = [repodata EXCEPT ![i] = source[subdirs[i]]]
          /\ sub_pc' = [sub_pc EXCEPT ![i] = "list"]
          /\ UNCHANGED sub_result
       \/ /\ SubReturnErr(i, IoError("fetch_repodata"))
          /\ UNCHANGED repodata
    /\ UNCHANGED <<job_vars, mirror_vars, dest_files, dest_repodata,
                   available_packages, delete_tasks, add_tasks, permits, ops>>

\* the delete tasks dispatch_tasks_delete spawns (lines 234-259)
SpawnDeletes(i, to_delete) ==
    [delete_tasks EXCEPT ![i] =
        [f \in Filenames |-> IF f \in to_delete THEN "pending" ELSE "none"]]

\* lines 451-486 and 215-259: list <subdir>/ at the destination, plan, and
\* spawn the delete tasks
SubList(i) ==
    /\ sub_pc[i] = "list"
    /\ \/ /\ available_packages' =
                [available_packages EXCEPT ![i] = AvailablePackages(dest_files[subdirs[i]])]
          /\ delete_tasks' =
                SpawnDeletes(i, PackagesToDelete(available_packages'[i], packages_to_mirror(i)))
          /\ sub_pc' = [sub_pc EXCEPT ![i] = "delete"]
          /\ UNCHANGED sub_result
       \/ /\ SubReturnErr(i, IoError("list"))
          /\ UNCHANGED <<available_packages, delete_tasks>>
    /\ UNCHANGED <<job_vars, mirror_vars, dest_files, dest_repodata, repodata,
                   add_tasks, permits, ops>>

\* faulty variant: the join loop stops as soon as no delete task has failed so far
DeletesJoinedAll_NoneFailed(i) ==
    \A f \in packages_to_delete(i) : delete_tasks[i][f] # "failed"

\* lines 261-286: the join loop of dispatch_tasks_delete has taken Ok from
\* every delete task
DeletesJoinedAll(i) ==
    \A f \in packages_to_delete(i) : delete_tasks[i][f] = "done"

\* the add tasks dispatch_tasks_add spawns (lines 324-380)
SpawnAdds(i, to_add) ==
    [add_tasks EXCEPT ![i] =
        [f \in Filenames |->
            IF f \in DOMAIN to_add THEN AddTask("pending", None, NotReturned) ELSE NoAddTask]]

\* lines 493-512: dispatch_tasks_delete returned Ok; dispatch_tasks_add spawns
SubDeletesOk(i) ==
    /\ sub_pc[i] = "delete"
    /\ DeletesJoinedAll(i)
    /\ add_tasks' = SpawnAdds(i, packages_to_add(i))
    /\ sub_pc' = [sub_pc EXCEPT ![i] = "add"]
    /\ UNCHANGED <<job_vars, mirror_vars, dest_files, dest_repodata, sub_result,
                   plan_vars, delete_tasks, permits, ops>>

\* lines 265-274 and 500: the join loop met a failed delete; tasks.clear();
\* mirror_subdir returns the error
SubDeletesErr(i) ==
    /\ sub_pc[i] = "delete"
    /\ \E f \in Filenames :
         /\ delete_tasks[i][f] = "failed"
         /\ SubReturnErr(i, IoError("delete"))
    /\ UNCHANGED <<job_vars, mirror_vars, dest_files, dest_repodata, plan_vars,
                   delete_tasks, add_tasks, permits, ops>>

\* faulty variant: the join loop stops as soon as no add task has failed so far
AddsJoinedAll_NoneFailed(i) ==
    \A f \in DOMAIN packages_to_add(i) : add_tasks[i][f].st # "failed"

\* faulty variant: the join loop takes Ok(Err(e)) like Ok(Ok(())) and goes on
AddsJoinedAll_IgnoreFailed(i) ==
    \A f \in DOMAIN packages_to_add(i) : add_tasks[i][f].st \in {"done", "failed"}

\* lines 382-407: the join loop of dispatch_tasks_add has taken Ok from every
\* add task
AddsJoinedAll(i) ==
    \A f \in DOMAIN packages_to_add(i) : add_tasks[i][f].st = "done"

\* lines 503-512: dispatch_tasks_add returned Ok
SubAddsOk(i) ==
    /\ sub_pc[i] = "add"
    /\ AddsJoinedAll(i)
    /\ sub_pc' = [sub_pc EXCEPT ![i] = "write_repodata"]
    /\ UNCHANGED <<job_vars, mirror_vars, dest_files, dest_repodata, sub_result,
                   plan_vars, delete_tasks, add_tasks, permits, ops>>

\* lines 386-395 and 512: the join loop met a failed add; tasks.clear();
\* mirror_subdir returns that task's error
SubAddsErr(i) ==
    /\ sub_pc[i] = "add"
    /\ \E f \in Filenames :
         /\ add_tasks[i][f].st = "failed"
         /\ SubReturnErr(i, add_tasks[i][f].err)
    /\ UNCHANGED <<job_vars, mirror_vars, dest_files, dest_repodata, plan_vars,
                   delete_tasks, add_tasks, permits, ops>>

\* lines 515-560: rebuild the manifest and write <subdir>/repodata.json; the
\* task panics in the rebuild when a key is no archive name
SubWriteRepodata(i) ==
    /\ sub_pc[i] = "write_repodata"
    /\ \/ /\ ReachesUnreachable(packages_to_mirror(i))
          /\ sub_pc' = [sub_pc EXCEPT ![i] = "panicked"]
          /\ UNCHANGED <<sub_result, dest_repodata, ops>>
       \/ /\ ~ReachesUnreachable(packages_to_mirror(i))
          /\ dest_repodata' =
                [dest_repodata EXCEPT ![subdirs[i]] =
                    Some(NewRepodata(repodata[i][1], packages_to_mirror(i)))]
          /\ ops' = ops \cup {DestOp("write", subdirs[i], RepodataJson)}
          /\ sub_pc' = [sub_pc EXCEPT ![i] = "ok"]
          /\ sub_result' = [sub_result EXCEPT ![i] = Ok]
       \/ /\ ~ReachesUnreachable(packages_to_mirror(i))
          /\ SubReturnErr(i, IoError("write_repodata"))
          /\ UNCHANGED <<dest_repodata, ops>>
    /\ UNCHANGED <<job_vars, mirror_vars, dest_files, plan_vars,
                   delete_tasks, add_tasks, permits>>

(***************************************************************************)
(* A delete task of dispatch_tasks_delete (lines 238-257).                 *)
(***************************************************************************)
\* faulty variant: a permit is taken without waiting for one to be available
Acquire_NoWait == permits' = permits - 1

\* faulty variant: acquire_many(2) in place of acquire()
Acquire_TwoPermits == permits > 1 /\ permits' = permits - 2

\* faulty variant: the permit is forgotten instead of dropped
Release_Leak == UNCHANGED permits

\* semaphore.acquire().await
Acquire == permits > 0 /\ permits' = permits - 1
\* the permit is dropped when the task returns
Release == permits' = permits + 1

DeleteAcquire(i, f) ==
    /\ delete_tasks[i][f] = "pending"
    /\ Acquire
    /\ delete_tasks' = [delete_tasks EXCEPT ![i][f] = "deleting"]
    /\ UNCHANGED <<job_vars, mirror_vars, dest_files, dest_repodata, sub_pc,
                   sub_result, plan_vars, add_tasks, ops>>

\* op.delete(<subdir>/<filename>) returned
DeleteRun(i, f) ==
    /\ delete_tasks[i][f] = "deleting"
    /\ \/ /\ dest_files' = [dest_files EXCEPT ![subdirs[i]][f] = Absent]
          /\ ops' = ops \cup {DestOp("delete", subdirs[i], f)}
          /\ delete_tasks' = [delete_tasks EXCEPT ![i][f] = "done"]
       \/ /\ delete_tasks' = [delete_tasks EXCEPT ![i][f] = "failed"]
          /\ UNCHANGED <<dest_files, ops>>
    /\ Release
    /\ UNCHANGED <<job_vars, mirror_vars, dest_repodata, sub_pc, sub_result,
                   plan_vars, add_tasks>>

(***************************************************************************)
(* An add task of dispatch_tasks_add (lines 330-378).                      *)
(***************************************************************************)
AddAcquire(i, f) ==
    /\ add_tasks[i][f].st = "pending"
    /\ Acquire
    /\ add_tasks' = [add_tasks EXCEPT ![i][f] = AddTask("fetching", None, NotReturned)]
    /\ UNCHANGED <<job_vars, mirror_vars, dest_files, dest_repodata, sub_pc,
                   sub_result, plan_vars, delete_tasks, ops>>

\* lines 342-353: the source answered with some bytes, or the fetch failed
AddFetch(i, f) ==
    /\ add_tasks[i][f].st = "fetching"
    /\ \/ /\ \E buf \in Bytes :
               add_tasks' = [add_tasks EXCEPT ![i][f] = AddTask("verifying", Some(buf), NotReturned)]
          /\ UNCHANGED permits
       \/ /\ add_tasks' = [add_tasks EXCEPT ![i][f] =
                              AddTask("failed", None, IoError("fetch"))]
          /\ Release
    /\ UNCHANGED <<job_vars, mirror_vars, dest_files, dest_repodata, sub_pc,
                   sub_result, plan_vars, delete_tasks, ops>>

\* faulty variant: the digest comparison is skipped
DigestOk_Skip(package_record, buf) == TRUE

\* faulty variant: `!=` written as `==` in the digest comparison
DigestOk_Inverted(package_record, buf) ==
    package_record.sha256 = None \/ package_record.sha256[1] # Sha256(buf)

\* lines 355-366: whether the fetched bytes pass the digest check
DigestOk(package_record, buf) ==
    package_record.sha256 = None \/ package_record.sha256[1] = Sha256(buf)

AddVerify(i, f) ==
    /\ add_tasks[i][f].st = "verifying"
    /\ LET package_record == packages_to_add(i)[f]
           buf == add_tasks[i][f].buf[1]
       IN  IF DigestOk(package_record, buf)
           THEN /\ add_tasks' = [add_tasks EXCEPT ![i][f] = AddTask("writing", Some(buf), NotReturned)]
                /\ UNCHANGED permits
           ELSE /\ add_tasks' = [add_tasks EXCEPT ![i][f] =
                      AddTask("failed", None,
                              DigestError(f, package_record.sha256[1], Sha256(buf)))]
                /\ Release
    /\ UNCHANGED <<job_vars, mirror_vars, dest_files, dest_repodata, sub_pc,
                   sub_result, plan_vars, delete_tasks, ops>>

\* lines 369-377: op.write(<subdir>/<filename>, buf) returned
AddWrite(i, f) ==
    /\ add_tasks[i][f].st = "writing"
    /\ \/ /\ dest_files' = [dest_files EXCEPT ![subdirs[i]][f] = File(add_tasks[i][f].buf[1])]
          /\ ops' = ops \cup {DestOp("write", subdirs[i], f)}
          /\ add_tasks' = [add_tasks EXCEPT ![i][f] = AddTask("done", None, Ok)]
       \/ /\ add_tasks' = [add_tasks EXCEPT ![i][f] =
                              AddTask("failed", None, IoError("write"))]
          /\ UNCHANGED <<dest_files, ops>>
    /\ Release
    /\ UNCHANGED <<job_vars, mirror_vars, dest_repodata, sub_pc, sub_result,
                   plan_vars, delete_tasks>>

(***************************************************************************)
(* Specifications.                                                         *)
(***************************************************************************)
Next ==
    \/ MirrorSetupErr
    \/ MirrorSpawn
    \/ MirrorProbeErr
    \/ MirrorOk
    \/ MirrorErr
    \/ MirrorAgain
    \/ \E i \in TaskIds : SubFetchRepodata(i)
    \/ \E i \in TaskIds : SubList(i)
    \/ \E i \in TaskIds : SubDeletesOk(i)
    \/ \E i \in TaskIds : SubDeletesErr(i)
    \/ \E i \in TaskIds : SubAddsOk(i)
    \/ \E i \in TaskIds : SubAddsErr(i)
    \/ \E i \in TaskIds : SubWriteRepodata(i)
    \/ \E i \in TaskIds, f \in Filenames : DeleteAcquire(i, f)
    \/ \E i \in TaskIds, f \in Filenames : DeleteRun(i, f)
    \/ \E i \in TaskIds, f \in Filenames : AddAcquire(i, f)
    \/ \E i \in TaskIds, f \in Filenames : AddFetch(i, f)
    \/ \E i \in TaskIds, f \in Filenames : AddVerify(i, f)
    \/ \E i \in TaskIds, f \in Filenames : AddWrite(i, f)

Spec == Init /\ [][Next]_vars

\* the same program with a permit pool small enough to be exhausted
InitContended == \E p \in {SmallPool, max_parallel} : InitWith(p)
SpecContended == InitContended /\ [][Next]_vars

\* Jobs for the package filter: a source with the one subdir noarch, every
\* mode over rule lists of up to two rules, the empty lists included.
FilterRules == {GlobAStar, GlobB, GlobStar20, SpecA99}
RuleLists ==
    {<<>>} \cup {<<r>> : r \in FilterRules} \cup {<<r, q>> : r \in FilterRules, q \in FilterRules}
FilterModes ==
    {ModeAll}
    \cup {MirrorMode("OnlyInclude", I, <<>>) : I \in RuleLists}
    \cup {MirrorMode("AllButExclude", <<>>, E) : E \in RuleLists}
    \cup {MirrorMode("IncludeExclude", I, E) : I \in RuleLists, E \in RuleLists}

InitFilter ==
    InitOf(max_parallel,
           FileJobs({None}, FilterModes),
           {[s \in PlatformSet |-> IF s = "noarch" THEN rd ELSE None] :
                rd \in {Some(RepoAB), Some(RepoB)}},
           {[s \in PlatformSet |-> IF s = "noarch" THEN l ELSE NoFiles] :
                l \in {NoFiles, [NoFiles EXCEPT ![TarBz2A] = File(1), ![CondaB] = File(1)]}})
SpecFilter == InitFilter /\ [][Next]_vars

\* Jobs on wider ground: a source that lacks <subdir>/repodata.json for some
\* platforms or serves a manifest that breaks the partition rule, an explicit
\* subdir list, a destination with entries that are no archive files.
WideSubdirChoices == {None, Some(<<"linux-64">>)}
WideSourceRepodatas == {None, Some(RepoAB), Some(RepoMixed), Some(RepoIndex)}
WideListing ==
    [NoFiles EXCEPT ![TarBz2A] = File(1), ![IndexHtml] = File(1), ![OldConda] = Dir]

InitWide ==
    InitOf(max_parallel, FileJobs(WideSubdirChoices, {ModeAll}),
           {[s \in PlatformSet |-> IF s = "noarch" THEN rd ELSE other] :
                rd \in WideSourceRepodatas, other \in {None, Some(RepoAB)}},
           {[s \in PlatformSet |-> IF s = "noarch" THEN l ELSE WideListing] :
                l \in {NoFiles, WideListing}})
SpecWide == InitWide /\ [][Next]_vars

\* Jobs whose explicit subdir list names a subdir twice (`--subdir noarch
\* --subdir noarch`, or a YAML list with a repeated entry).
InitRepeated ==
    InitOf(max_parallel,
           FileJobs({None, Some(<<"noarch", "noarch">>)}, {ModeAll}),
           {[s \in PlatformSet |-> IF s = "noarch" THEN rd ELSE None] :
                rd \in {Some(RepoAB), Some(RepoEmpty)}},
           {[s \in PlatformSet |-> IF s = "noarch" THEN l ELSE NoFiles] :
                l \in {NoFiles, [NoFiles EXCEPT ![TarBz2A] = File(1), ![CondaB] = File(1)]}})
SpecRepeated == InitRepeated /\ [][Next]_vars

\* Jobs of every source and destination setup: every source variant and
\* scheme with and without S3 settings and credentials towards a directory,
\* and every destination scheme with and without S3 settings, supplied and
\* stored credentials from an https source.
SetupJobs ==
    {CondaMirrorConfig(src, Path, None, ModeAll, c, None, k, None) :
         src \in {Path, Name, HttpsUrl, S3Url, S3UrlNoHost},
         c \in {None, S3Config}, k \in {None, S3Credentials}}
    \cup
    {CondaMirrorConfig(HttpsUrl, d, None, ModeAll, None, c, None, k) :
         d \in {Path, S3Url, S3UrlNoHost, HttpsUrl, FtpUrl, Name},
         c \in {None, S3Config}, k \in {None, S3Credentials}}

InitSetup ==
    /\ InitJob(max_parallel, SetupJobs, AuthStorages,
               {[s \in PlatformSet |-> IF s = "noarch" THEN Some(RepoB) ELSE rd] :
                    rd \in {Some(RepoAB), Some(RepoEmpty)}},
               {[s \in PlatformSet |-> IF s = "noarch" THEN NoFiles ELSE l] :
                    l \in {NoFiles, [NoFiles EXCEPT ![TarBz2A] = File(1), ![CondaB] = File(1)]}})
    /\ source["linux-64"] = Some(RepoEmpty) <=> dest_files["linux-64"] # NoFiles
    /\ config.destination.scheme # "s3" => auth_storage = None
SpecSetup == InitSetup /\ [][Next]_vars

\* the steps of mirror() and of its tasks; running mirror() again is the
\* caller's step
NextOfRun ==
    \/ MirrorSetupErr
    \/ MirrorSpawn
    \/ MirrorProbeErr
    \/ MirrorOk
    \/ MirrorErr
    \/ \E i \in TaskIds : SubFetchRepodata(i)
    \/ \E i \in TaskIds : SubList(i)
    \/ \E i \in TaskIds : SubDeletesOk(i)
    \/ \E i \in TaskIds : SubDeletesErr(i)
    \/ \E i \in TaskIds : SubAddsOk(i)
    \/ \E i \in TaskIds : SubAddsErr(i)
    \/ \E i \in TaskIds : SubWriteRepodata(i)
    \/ \E i \in TaskIds, f \in Filenames : DeleteAcquire(i, f)
    \/ \E i \in TaskIds, f \in Filenames : DeleteRun(i, f)
    \/ \E i \in TaskIds, f \in Filenames : AddAcquire(i, f)
    \/ \E i \in TaskIds, f \in Filenames : AddFetch(i, f)
    \/ \E i \in TaskIds, f \in Filenames : AddVerify(i, f)
    \/ \E i \in TaskIds, f \in Filenames : AddWrite(i, f)

\* Scheduling: the runtime does not stop while some task can step and every
\* I/O call returns.  This asks less of the runtime and of the semaphore than
\* they give (per-task progress, permits handed out in FIFO order).  The
\* caller is not obliged to run mirror() again.
Fairness == WF_vars(NextOfRun)

\* Jobs with more package tasks than permits: SmallPool permits, two subdirs,
\* three archives to add or two to delete and one to add.
InitFair ==
    /\ InitOf(SmallPool, FileJobs({None}, {ModeAll}),
              {[s \in PlatformSet |-> IF s = "noarch" THEN Some(RepoB) ELSE rd] :
                   rd \in {Some(RepoAB), Some(RepoEmpty)}},
              {[s \in PlatformSet |-> IF s = "noarch" THEN NoFiles ELSE l] :
                   l \in {NoFiles, [NoFiles EXCEPT ![TarBz2A] = File(1), ![CondaB] = File(1)]}})
    /\ source["linux-64"] = Some(RepoEmpty) <=> dest_files["linux-64"] # NoFiles
SpecFair == InitFair /\ [][Next]_vars /\ Fairness

(***************************************************************************)
(* Properties.                                                             *)
(***************************************************************************)
SubdirOf(i) == subdirs[i]
ManifestAt(s) == dest_repodata[s][1]
ManifestWritten(s) == DestOp("write", s, RepodataJson) \in ops
Present(s, f) == dest_files[s][f] # Absent
DeleteFailed(i) == \E f \in Filenames : delete_tasks[i][f] = "failed"
AddFailed(i) == \E f \in Filenames : add_tasks[i][f].st = "failed"
PackageFailed(i) == DeleteFailed(i) \/ AddFailed(i)

\* C1: after mirror returns success, every filename listed in the manifest
\* this run wrote to <subdir>/repodata.json exists at <subdir>/, for every
\* processed subdir.
C1_ManifestFilesExist ==
    mirror_pc = "ok" =>
        \A i \in Spawned :
            /\ ManifestWritten(SubdirOf(i))
            /\ dest_repodata[SubdirOf(i)] # None
            /\ \A f \in ManifestKeys(ManifestAt(SubdirOf(i))) : Present(SubdirOf(i), f)

C1_Witness ==
    /\ mirror_pc = "ok"
    /\ \E i \in Spawned : \E f \in ManifestKeys(ManifestAt(SubdirOf(i))) :
          DestOp("write", SubdirOf(i), f) \in ops

\* C2: after mirror returns success, every archive at <subdir>/ of a
\* processed subdir is a key of the emitted manifest, and every archive that
\* was listed there but is not in the filtered source set has been deleted.
C2_NoLeftovers ==
    mirror_pc = "ok" =>
        \A i \in Spawned :
            /\ \A f \in Filenames :
                  (Present(SubdirOf(i), f) /\ ArchiveType(f) # "None")
                      => f \in ManifestKeys(ManifestAt(SubdirOf(i)))
            /\ \A f \in available_packages[i] \ DOMAIN packages_to_mirror(i) :
                  /\ ~Present(SubdirOf(i), f)
                  /\ DestOp("delete", SubdirOf(i), f) \in ops

C2_Witness ==
    /\ mirror_pc = "ok"
    /\ \E i \in Spawned : \E f \in available_packages[i] :
          /\ f \notin DOMAIN packages_to_mirror(i)
          /\ DestOp("delete", SubdirOf(i), f) \in ops

\* the bytes at <subdir>/f hash to the SHA-256 the record declares
HashesTo(s, f, package_record) ==
    /\ Present(s, f)
    /\ Some(Sha256(dest_files[s][f][1])) = package_record.sha256

\* C3 as claimed: after a successful run every manifest record that declares
\* a SHA-256 has destination bytes hashing to it, whatever archives the
\* destination held before the run.
C3_Original ==
    mirror_pc = "ok" =>
        \A i \in Spawned : \A f \in DOMAIN packages_to_mirror(i) :
            packages_to_mirror(i)[f].sha256 # None
                => HashesTo(SubdirOf(i), f, packages_to_mirror(i)[f])

\* C3 as amended: after a successful run every manifest record that declares
\* a SHA-256 and whose archive this run added (it was not listed at the
\* destination) has destination bytes hashing to it.
C3_AddedHashesMatch ==
    mirror_pc = "ok" =>
        \A i \in Spawned : \A f \in DOMAIN packages_to_add(i) :
            packages_to_add(i)[f].sha256 # None
                => HashesTo(SubdirOf(i), f, packages_to_add(i)[f])

C3_Witness ==
    /\ mirror_pc = "ok"
    /\ \E i \in Spawned : \E f \in DOMAIN packages_to_add(i) :
          /\ packages_to_add(i)[f].sha256 # None
          /\ DestOp("write", SubdirOf(i), f) \in ops

\* C4 as claimed: a second run on the destination a successful run left
\* performs no write and no delete on the destination.
C4_Original == run > 1 => ops = {}

NoPackageTask(i) ==
    \A f \in Filenames : delete_tasks[i][f] = "none" /\ add_tasks[i][f].st = "none"

\* C4 as amended: a second run spawns no package task, its only destination
\* operations are the writes of <subdir>/repodata.json, no step of it changes
\* an archive or the content of a manifest at the destination, and it fails
\* only if canonicalizing the destination path, probing the source for
\* subdirs, fetching the source manifest, listing or the manifest write fails.
C4_SecondRunRewritesManifestOnly ==
    /\ [](run > 1 =>
            /\ \A i \in TaskIds : NoPackageTask(i)
            /\ \A o \in ops : o.op = "write" /\ o.filename = RepodataJson
            /\ mirror_pc = "err" =>
                  mirror_result.kind \in
                      {"Could not canonicalize path", "get_subdirs",
                       "fetch_repodata", "list", "write_repodata"})
    /\ [][(run > 1 /\ run' = run) =>
            (dest_files' = dest_files /\ dest_repodata' = dest_repodata)]_vars

C4_Witness ==
    /\ run = 2
    /\ mirror_pc = "ok"
    /\ \E i \in Spawned :
          /\ ManifestWritten(SubdirOf(i))
          /\ ManifestKeys(ManifestAt(SubdirOf(i))) # {}

\* C5: the manifest write of a subdir comes after all its add tasks have
\* succeeded, so whenever <subdir>/repodata.json is the manifest this run
\* wrote, every filename it lists is present at the destination.
C5_ManifestWrittenLast ==
    \A i \in Spawned :
        /\ sub_pc[i] \in {"write_repodata", "ok"} =>
              \A f \in DOMAIN packages_to_add(i) : add_tasks[i][f].st = "done"
        /\ ManifestWritten(SubdirOf(i)) =>
              \A f \in ManifestKeys(ManifestAt(SubdirOf(i))) : Present(SubdirOf(i), f)

C5_Witness ==
    /\ mirror_pc = "join"
    /\ \E i \in Spawned :
          /\ ManifestWritten(SubdirOf(i))
          /\ DOMAIN packages_to_add(i) # {}

\* C6: no add task of a subdir exists until every delete task of that subdir
\* has completed, and once a delete has failed no add task is ever spawned.
C6_DeletesBeforeAdds ==
    \A i \in Spawned :
        /\ (\E f \in Filenames : add_tasks[i][f].st # "none") =>
              \A f \in packages_to_delete(i) : delete_tasks[i][f] = "done"
        /\ DeleteFailed(i) => \A f \in Filenames : add_tasks[i][f].st = "none"

C6_Witness ==
    \E i \in Spawned :
        /\ \E f \in Filenames : add_tasks[i][f].st \in {"fetching", "writing"}
        /\ packages_to_delete(i) # {}

\* C7: the package operations that hold a permit and do I/O, summed over all
\* subdirs, never exceed the semaphore's permits (32 in the program): every
\* task in an I/O state took one permit of the one pool.
C7_PermitCap ==
    /\ permits >= 0
    /\ PermitsHeld + permits = pool
    /\ PermitsHeld <= pool
    /\ pool = max_parallel => PermitsHeld <= 32

C7_Witness ==
    /\ pool = SmallPool
    /\ PermitsHeld = pool
    /\ \E i \in Spawned, f \in Filenames : add_tasks[i][f].st = "pending"
    /\ \E i, j \in Spawned : i # j /\ (\E f \in Filenames : AddHoldsPermit(i, f))
                                   /\ (\E f \in Filenames : AddHoldsPermit(j, f))

\* C8: an add task whose record declares a SHA-256 reaches its write only
\* with bytes that hash to it; on a mismatch it fails with an error naming
\* the filename and nothing is written to <subdir>/<filename>.
C8_VerifyBeforeWrite ==
    \A i \in Spawned : \A f \in Filenames :
        /\ add_tasks[i][f].st = "writing" =>
              DigestOk(packages_to_add(i)[f], add_tasks[i][f].buf[1])
        /\ DestOp("write", SubdirOf(i), f) \in ops =>
              /\ Present(SubdirOf(i), f)
              /\ DigestOk(packages_to_add(i)[f], dest_files[SubdirOf(i)][f][1])
        /\ (add_tasks[i][f].st = "failed" /\ add_tasks[i][f].err.kind = "digest") =>
              /\ add_tasks[i][f].err.filename = Some(f)
              /\ add_tasks[i][f].err.expected = packages_to_add(i)[f].sha256
              /\ add_tasks[i][f].err.digest # add_tasks[i][f].err.expected
              /\ ~Present(SubdirOf(i), f)
              /\ DestOp("write", SubdirOf(i), f) \notin ops

C8_Witness ==
    \E i \in Spawned : \E f \in Filenames :
        /\ add_tasks[i][f].st = "failed"
        /\ add_tasks[i][f].err.kind = "digest"
        /\ \E g \in Filenames : DestOp("write", SubdirOf(i), g) \in ops

\* the errors the failed package tasks of subdir task i returned
PackageErrors(i) ==
    {IoError("delete") : f \in {g \in Filenames : delete_tasks[i][g] = "failed"}}
    \cup {add_tasks[i][f].err : f \in {g \in Filenames : add_tasks[i][g].st = "failed"}}

\* C9: once a package operation of a subdir has failed, the subdir task can
\* only return one of the failed tasks' errors, the run does not write
\* <subdir>/repodata.json and the manifest stored there stays as it was;
\* returning the error undoes no completed write or delete.
C9_FailedSubdirKeepsManifest ==
    /\ [](\A i \in Spawned : PackageFailed(i) =>
            /\ sub_pc[i] \in {"delete", "add", "err"}
            /\ sub_pc[i] = "err" => sub_result[i] \in PackageErrors(i)
            /\ ~ManifestWritten(SubdirOf(i)))
    /\ [][\A i \in Spawned :
            /\ PackageFailed(i) =>
                  dest_repodata'[SubdirOf(i)] = dest_repodata[SubdirOf(i)]
            /\ (sub_pc[i] # "err" /\ sub_pc'[i] = "err") =>
                  dest_files' = dest_files]_vars

C9_Witness ==
    \E i \in Spawned :
        /\ sub_pc[i] = "err"
        /\ AddFailed(i)
        /\ dest_repodata[SubdirOf(i)] # None
        /\ \E f \in Filenames : DestOp("delete", SubdirOf(i), f) \in ops

\* C10 as claimed: once a subdir task has returned its error, its package
\* tasks hold no permit and no further delete or write reaches <subdir>/.
C10_Original ==
    [][\A i \in Spawned :
          sub_pc[i] = "err" =>
              /\ \A f \in Filenames : ~DeleteHoldsPermit(i, f) /\ ~AddHoldsPermit(i, f)
              /\ dest_files'[SubdirOf(i)] = dest_files[SubdirOf(i)]]_vars

\* C11 as claimed: after mirror has returned an error, no subdir task other
\* than the ones that returned an error deletes an archive, writes an archive
\* or writes a manifest at the destination.
C11_Original ==
    [][mirror_pc = "err" =>
          \A i \in Spawned :
              sub_pc[i] # "err" =>
                  /\ dest_files'[SubdirOf(i)] = dest_files[SubdirOf(i)]
                  /\ dest_repodata'[SubdirOf(i)] = dest_repodata[SubdirOf(i)]]_vars

\* every record of a source manifest, `packages.conda` over `packages`
AllRecords(rd) == Extend(rd.packages, rd.conda_packages)
\* subdir task i has the source manifest and filters it
Fetched(i) == i \in Spawned /\ repodata[i] # None
\* some rule of the list matches the record
SomeRuleMatches(rules, package_record) ==
    \E r \in {rules[k] : k \in DOMAIN rules} : matches(r, package_record)

\* C12: the filtered set holds source records unchanged; under All it is
\* every record of both partitions, under OnlyInclude(I) exactly the records
\* some rule of I matches (none for an empty I), under AllButExclude(E)
\* exactly the records no rule of E matches (all for an empty E).
C12_FilterModes ==
    \A i \in TaskIds : Fetched(i) =>
        LET all == AllRecords(repodata[i][1])
            K == packages_to_mirror(i)
            mode == config.mode
        IN  /\ DOMAIN K \subseteq DOMAIN all
            /\ \A f \in DOMAIN K : K[f] = all[f]
            /\ mode.kind = "All" => DOMAIN K = DOMAIN all
            /\ mode.kind = "OnlyInclude" =>
                  /\ DOMAIN K = {f \in DOMAIN all : SomeRuleMatches(mode.include, all[f])}
                  /\ mode.include = <<>> => DOMAIN K = {}
            /\ mode.kind = "AllButExclude" =>
                  /\ DOMAIN K = {f \in DOMAIN all : ~SomeRuleMatches(mode.exclude, all[f])}
                  /\ mode.exclude = <<>> => DOMAIN K = DOMAIN all

C12_Witness ==
    /\ mirror_pc = "ok"
    /\ config.mode.kind = "OnlyInclude"
    /\ Len(config.mode.include) = 2
    /\ \E i \in Spawned :
          /\ DOMAIN packages_to_mirror(i) # {}
          /\ DOMAIN packages_to_mirror(i) # DOMAIN AllRecords(repodata[i][1])
          /\ \E f \in DOMAIN packages_to_mirror(i) : DestOp("write", SubdirOf(i), f) \in ops

\* C13 as claimed: under IncludeExclude(I, E) a record is retained iff no rule
\* of E and no rule of I matches it, for every I and every E, the empty E
\* included.
C13_Original ==
    \A i \in TaskIds : (Fetched(i) /\ config.mode.kind = "IncludeExclude") =>
        LET all == AllRecords(repodata[i][1])
        IN  DOMAIN packages_to_mirror(i) =
                {f \in DOMAIN all :
                    ~(SomeRuleMatches(config.mode.exclude, all[f])
                      \/ SomeRuleMatches(config.mode.include, all[f]))}

\* C13 as amended: under IncludeExclude(I, E) with a non-empty E a record is
\* retained iff no rule of E and no rule of I matches it; with an empty E
\* every record is retained, whatever I is.
C13_IncludeNarrowsUnlessNoExclude ==
    \A i \in TaskIds : (Fetched(i) /\ config.mode.kind = "IncludeExclude") =>
        LET all == AllRecords(repodata[i][1])
        IN  DOMAIN packages_to_mirror(i) =
                {f \in DOMAIN all :
                    \/ config.mode.exclude = <<>>
                    \/ ~(SomeRuleMatches(config.mode.exclude, all[f])
                         \/ SomeRuleMatches(config.mode.include, all[f]))}

C13_Witness ==
    /\ mirror_pc = "ok"
    /\ config.mode.kind = "IncludeExclude"
    /\ config.mode.exclude # <<>>
    /\ \E i \in Spawned :
          LET all == AllRecords(repodata[i][1])
          IN  /\ DOMAIN packages_to_mirror(i) # {}
              /\ \E f \in DOMAIN all \ DOMAIN packages_to_mirror(i) :
                    /\ SomeRuleMatches(config.mode.include, all[f])
                    /\ ~SomeRuleMatches(config.mode.exclude, all[f])
                    /\ DestOp("delete", SubdirOf(i), f) \in ops

\* C14 as claimed: under IncludeExclude(I, E) every record that no rule of E
\* matches is retained, and a record that a rule of E matches is retained
\* when a rule of I matches it too.
C14_Original ==
    \A i \in TaskIds : (Fetched(i) /\ config.mode.kind = "IncludeExclude") =>
        LET all == AllRecords(repodata[i][1])
        IN  DOMAIN packages_to_mirror(i) =
                {f \in DOMAIN all :
                    \/ ~SomeRuleMatches(config.mode.exclude, all[f])
                    \/ SomeRuleMatches(config.mode.include, all[f])}

\* every rule of the list is a name glob without a matchspec
IsNameRules(rules) ==
    \A k \in DOMAIN rules : rules[k].kind = "PackageGlob" /\ rules[k].matchspec = None
\* the package names of the universe
Names == <<RecordA.name, RecordB.name>>
\* name rules that match exactly the names no rule of `rules` matches
ComplementRules(rules) ==
    LET NameRule(name) == PackageGlob([literal |-> name, star |-> FALSE], None)
        Unmatched(name) ==
            \A k \in DOMAIN rules : ~GlobMatches(rules[k].name_glob, name)
    IN  [k \in 1..Len(SelectSeq(Names, Unmatched)) |->
            NameRule(SelectSeq(Names, Unmatched)[k])]

\* C15: for the rule list E of the job, the records AllButExclude(E) retains
\* and the records OnlyInclude(E) retains are disjoint and together are every
\* record of the manifest; when E is made of name rules, AllButExclude(E)
\* retains exactly what OnlyInclude(C) retains, C matching exactly the names
\* no rule of E matches.
C15_FilterComplement ==
    \A i \in TaskIds :
        (Fetched(i) /\ config.mode.kind \in {"AllButExclude", "OnlyInclude"}) =>
        LET E == IF config.mode.kind = "AllButExclude"
                 THEN config.mode.exclude ELSE config.mode.include
            rd == repodata[i][1]
            excluded == get_packages_to_mirror(rd, MirrorMode("AllButExclude", <<>>, E))
            included == get_packages_to_mirror(rd, MirrorMode("OnlyInclude", E, <<>>))
        IN  /\ packages_to_mirror(i) \in {excluded, included}
            /\ DOMAIN excluded \cap DOMAIN included = {}
            /\ DOMAIN excluded \cup DOMAIN included = DOMAIN AllRecords(rd)
            /\ IsNameRules(E) =>
                  excluded = get_packages_to_mirror(
                                 rd, MirrorMode("OnlyInclude", ComplementRules(E), <<>>))

C15_Witness ==
    /\ mirror_pc = "ok"
    /\ config.mode.kind = "AllButExclude"
    /\ config.mode.exclude # <<>>
    /\ IsNameRules(config.mode.exclude)
    /\ \E i \in Spawned :
          /\ DOMAIN packages_to_mirror(i) # {}
          /\ DOMAIN packages_to_mirror(i) # DOMAIN AllRecords(repodata[i][1])
          /\ ComplementRules(config.mode.exclude) # <<>>
          /\ \E f \in Filenames : DestOp("delete", SubdirOf(i), f) \in ops

\* C16: with K the filtered set and D the archives listed at <subdir>/, the
\* planned deletes are D minus keys(K) and the planned adds are the entries
\* of K whose filename is not in D; the two are disjoint, delete tasks exist
\* only for the former and add tasks only for the latter, and a filename in
\* both K and D gets no task and no destination operation.
C16_Plan ==
    \A i \in TaskIds : Fetched(i) =>
        LET K == packages_to_mirror(i)
            D == available_packages[i]
        IN  /\ packages_to_delete(i) = D \ DOMAIN K
            /\ packages_to_add(i) = [f \in DOMAIN K \ D |-> K[f]]
            /\ packages_to_delete(i) \cap DOMAIN packages_to_add(i) = {}
            /\ \A f \in Filenames :
                  /\ delete_tasks[i][f] # "none" => f \in D \ DOMAIN K
                  /\ add_tasks[i][f].st # "none" => f \in DOMAIN K \ D
            /\ sub_pc[i] \in {"delete", "add", "write_repodata", "ok"} =>
                  \A f \in D \ DOMAIN K : delete_tasks[i][f] # "none"
            /\ sub_pc[i] \in {"add", "write_repodata", "ok"} =>
                  \A f \in DOMAIN K \ D : add_tasks[i][f].st # "none"
            /\ \A f \in DOMAIN K \cap D :
                  /\ delete_tasks[i][f] = "none"
                  /\ add_tasks[i][f] = NoAddTask
                  /\ DestOp("delete", SubdirOf(i), f) \notin ops
                  /\ DestOp("write", SubdirOf(i), f) \notin ops

C16_Witness ==
    \E i \in Spawned :
        /\ sub_pc[i] = "ok"
        /\ DOMAIN packages_to_mirror(i) \cap available_packages[i] # {}
        /\ \E f \in DOMAIN packages_to_mirror(i) \ available_packages[i] :
              DestOp("write", SubdirOf(i), f) \in ops

\* the subdirs the run processes
Processed(s) == \E i \in Spawned : subdirs[i] = s

\* C17 as claimed: what a subdir task lists and plans to delete are files with
\* an archive name only, and every step of a run changes at the destination
\* only archive-named objects that are not directories and repodata.json, of
\* processed subdirs only.
C17_Original ==
    /\ [](\A i \in Spawned : \A f \in Filenames :
            /\ f \in available_packages[i] =>
                  ArchiveType(f) # "None" /\ dest_files[SubdirOf(i)][f] # Dir
            /\ delete_tasks[i][f] # "none" => f \in available_packages[i])
    /\ [][\A s \in PlatformSet :
            /\ \A f \in Filenames :
                  dest_files'[s][f] # dest_files[s][f] =>
                      /\ Processed(s)
                      /\ ArchiveType(f) # "None"
                      /\ dest_files[s][f] # Dir
            /\ dest_repodata'[s] # dest_repodata[s] => Processed(s)]_vars

\* C18: an add task whose record carries no SHA-256 never fails with a digest
\* error: it goes from its fetch to its write with the bytes it fetched,
\* whatever they are, its write puts exactly those bytes at
\* <subdir>/<filename>, and the record is in the manifest the run emits.
C18_NoShaNoCheck ==
    /\ [](\A i \in TaskIds : Fetched(i) =>
            \A f \in DOMAIN packages_to_add(i) :
                packages_to_add(i)[f].sha256 = None =>
                    /\ add_tasks[i][f].err.kind # "digest"
                    /\ ManifestWritten(SubdirOf(i)) =>
                          /\ f \in ManifestKeys(ManifestAt(SubdirOf(i)))
                          /\ AllRecords(ManifestAt(SubdirOf(i)))[f] = packages_to_add(i)[f])
    /\ [][\A i \in TaskIds : Fetched(i) =>
            \A f \in DOMAIN packages_to_add(i) :
                packages_to_add(i)[f].sha256 = None =>
                    /\ (add_tasks[i][f].st = "verifying" /\ add_tasks'[i][f] # add_tasks[i][f]) =>
                          add_tasks'[i][f] = AddTask("writing", add_tasks[i][f].buf, NotReturned)
                    /\ (add_tasks[i][f].st = "writing" /\ add_tasks'[i][f].st = "done") =>
                          dest_files'[SubdirOf(i)][f] = File(add_tasks[i][f].buf[1])]_vars

C18_Witness ==
    /\ mirror_pc = "ok"
    /\ \E i \in Spawned : \E f \in DOMAIN packages_to_add(i) :
          /\ packages_to_add(i)[f].sha256 = None
          /\ DestOp("write", SubdirOf(i), f) \in ops
          /\ dest_files[SubdirOf(i)][f] = File(NBytes)
          /\ f \in ManifestKeys(ManifestAt(SubdirOf(i)))

\* the errors of the configuration checks of mirror() and get_client, and
\* all the errors mirror() can return before it calls get_subdirs
SetupErrors ==
    {SetupError(m) : m \in {"Invalid S3 url", "No S3 source config set",
                            "Source is not an S3 URL", "Invalid S3 URL",
                            "Unsupported scheme in destination",
                            "No S3 destination config set", "No bucket in S3 URL",
                            "Missing S3 credentials"}}

SetupFailures == SetupErrors \cup {SetupError("Could not canonicalize path")}

\* get_subdirs has returned its list to mirror()
Discovered ==
    /\ mirror_pc \in {"join", "ok", "err"}
    /\ mirror_result.kind # "get_subdirs"
    /\ mirror_result \notin SetupFailures

C20_EmittedPartition ==
    /\ \A s \in PlatformSet : dest_repodata[s] # None =>
          /\ \A f \in DOMAIN ManifestAt(s).packages : f[2] = ".tar.bz2"
          /\ \A f \in DOMAIN ManifestAt(s).conda_packages : f[2] = ".conda"
          /\ DOMAIN ManifestAt(s).packages \cap DOMAIN ManifestAt(s).conda_packages = {}
    /\ \A i \in Spawned : ManifestWritten(SubdirOf(i)) =>
          LET K == packages_to_mirror(i)
              M == ManifestAt(SubdirOf(i))
          IN  /\ ManifestKeys(M) = DOMAIN K
              /\ \A f \in DOMAIN K :
                    IF f[2] = ".conda" THEN M.conda_packages[f] = K[f]
                    ELSE M.packages[f] = K[f]

C20_Witness ==
    \E i \in Spawned :
        /\ ManifestWritten(SubdirOf(i))
        /\ repodata[i] = Some(RepoMixed)
        /\ DOMAIN ManifestAt(SubdirOf(i)).packages # {}
        /\ DOMAIN ManifestAt(SubdirOf(i)).conda_packages # {}

\* C21: the manifest a subdir task wrote has the `info`, `removed` and
\* version of the source manifest of that subdir, whatever the mode is and
\* whatever records the filter dropped.
C21_InfoRemovedVersionKept ==
    \A i \in Spawned : ManifestWritten(SubdirOf(i)) =>
        /\ source[SubdirOf(i)] # None
        /\ ManifestAt(SubdirOf(i)).info = source[SubdirOf(i)][1].info
        /\ ManifestAt(SubdirOf(i)).removed = source[SubdirOf(i)][1].removed
        /\ ManifestAt(SubdirOf(i)).version = source[SubdirOf(i)][1].version

C21_Witness ==
    \E i \in Spawned :
        /\ ManifestWritten(SubdirOf(i))
        /\ config.mode.kind = "IncludeExclude"
        /\ ManifestAt(SubdirOf(i)).removed # {}
        /\ DOMAIN packages_to_mirror(i) = {}
        /\ DOMAIN AllRecords(repodata[i][1]) # {}

\* C22: the manifest a subdir task wrote lists exactly the filenames of its
\* filtered set, each with the record the source manifest has for it; when
\* the filtered set is empty, both maps are empty and every archive that was
\* listed at <subdir>/ has been deleted.
C22_ManifestIsFilteredSet ==
    \A i \in Spawned : ManifestWritten(SubdirOf(i)) =>
        LET K == packages_to_mirror(i)
            M == ManifestAt(SubdirOf(i))
            src == AllRecords(source[SubdirOf(i)][1])
        IN  /\ DOMAIN M.packages \cup DOMAIN M.conda_packages = DOMAIN K
            /\ \A f \in DOMAIN K : AllRecords(M)[f] = src[f]
            /\ DOMAIN K = {} =>
                  /\ M.packages = EmptyMap
                  /\ M.conda_packages = EmptyMap
                  /\ \A f \in available_packages[i] :
                        /\ dest_files[SubdirOf(i)][f] = Absent
                        /\ DestOp("delete", SubdirOf(i), f) \in ops

C22_Witness ==
    \E i \in Spawned :
        /\ ManifestWritten(SubdirOf(i))
        /\ source[SubdirOf(i)] = Some(RepoEmpty)
        /\ Cardinality(available_packages[i]) = 2
        /\ \A f \in available_packages[i] : DestOp("delete", SubdirOf(i), f) \in ops

\* the steps an add task and a delete task can take
AddTaskSteps ==
    {<<"none", "pending">>, <<"pending", "fetching">>, <<"fetching", "verifying">>,
     <<"verifying", "writing">>, <<"writing", "done">>}
    \cup {<<st, "failed">> : st \in {"pending", "fetching", "verifying", "writing"}}
DeleteTaskSteps ==
    {<<"none", "pending">>, <<"pending", "deleting">>, <<"deleting", "done">>,
     <<"deleting", "failed">>}
\* the change of the number of permits a task holds over a step
PermitsTaken(before, after) ==
    (IF after THEN 1 ELSE 0) - (IF before THEN 1 ELSE 0)

\* C23: within a run an add task only steps Pending -> Fetching -> Verifying
\* -> Writing -> Done or from a state before Done to Failed (a delete task:
\* Pending -> Deleting -> Done or Failed); a task takes one permit when it
\* leaves Pending and gives it back when it reaches Done or Failed, so the
\* permits out are one per task in Fetching, Verifying, Writing or Deleting,
\* and with no such task every permit of the pool is available.
C23_TaskStatesAndPermits ==
    /\ [](/\ permits = pool - PermitsHeld
          /\ PermitsHeld = 0 => permits = pool
          /\ (pool = max_parallel /\ PermitsHeld = 0) => permits = 32)
    /\ [][run' = run =>
            \A i \in TaskIds : \A f \in Filenames :
                /\ add_tasks'[i][f].st # add_tasks[i][f].st =>
                      /\ <<add_tasks[i][f].st, add_tasks'[i][f].st>> \in AddTaskSteps
                      /\ permits' = permits - PermitsTaken(AddHoldsPermit(i, f),
                                                           AddHoldsPermit(i, f)')
                /\ delete_tasks'[i][f] # delete_tasks[i][f] =>
                      /\ <<delete_tasks[i][f], delete_tasks'[i][f]>> \in DeleteTaskSteps
                      /\ permits' = permits - PermitsTaken(DeleteHoldsPermit(i, f),
                                                           DeleteHoldsPermit(i, f)')]_vars

C23_Witness ==
    /\ pool = SmallPool
    /\ permits = pool
    /\ \E i \in Spawned :
          /\ \E f \in Filenames : add_tasks[i][f].st = "failed"
          /\ \E f \in Filenames : add_tasks[i][f].st = "done"
    /\ \E i \in Spawned : \E f \in Filenames : delete_tasks[i][f] = "failed"

\* no package task waits for a permit
NoneWaiting ==
    \A i \in TaskIds : \A f \in Filenames :
        add_tasks[i][f].st # "pending" /\ delete_tasks[i][f] # "pending"

\* C24: the permits out are those of package tasks alone (a subdir task that
\* waits for its package tasks holds none), and under the scheduling of
\* Fairness, however often mirror() is called, there always comes a time
\* when no package task waits for a permit (a waiting task leaves that state
\* only by acquiring one) and a time when mirror() has returned, also when
\* more tasks wait than the pool has permits.
C24_NoPermitDeadlock ==
    /\ [](permits + PermitsHeld = pool)
    /\ []<>NoneWaiting
    /\ []<>(mirror_pc \in {"ok", "err"})

C24_Witness ==
    /\ permits = 0
    /\ \E i \in Spawned :
          /\ sub_pc[i] = "add"
          /\ \E f \in Filenames : add_tasks[i][f].st = "pending"
          /\ ~(\E f \in Filenames : AddHoldsPermit(i, f))

\* C25 as claimed: no two subdir tasks are dispatched for the same subdir,
\* and no archive of a subdir is in the hands of two package tasks of one run.
C25_Original ==
    \A i, j \in Spawned : i # j =>
        /\ subdirs[i] # subdirs[j]
        /\ \A f \in Filenames :
              ~(/\ add_tasks[i][f].st \in {"fetching", "verifying", "writing"}
                /\ add_tasks[j][f].st \in {"fetching", "verifying", "writing"})

\* C27 as claimed: when the manifest is rebuilt every key of the filtered set
\* has a recognized archive type, so no subdir task panics after its deletes
\* and adds ran.
C27_Original ==
    \A i \in Spawned :
        /\ sub_pc[i] # "panicked"
        /\ sub_pc[i] = "write_repodata" =>
              \A f \in DOMAIN packages_to_mirror(i) : ArchiveType(f) # "None"

\* C29 as claimed: in every state of a run, and after a failed run, every
\* filename listed in the manifest stored at <subdir>/repodata.json of the
\* destination is present at the destination (it is so before the run).
C29_Original ==
    \A s \in PlatformSet :
        dest_repodata[s] # None =>
            \A f \in ManifestKeys(ManifestAt(s)) : Present(s, f)

\* the subdir task i returned the error of its manifest fetch
FetchFailed(i) == sub_pc[i] = "err" /\ sub_result[i].kind = "fetch_repodata"

\* C28: a subdir task whose source manifest cannot be fetched or parsed returns
\* that error straight from the fetch: it has no manifest, lists nothing,
\* spawns no package task, and no step it takes or that follows its return
\* in the run deletes, writes or rewrites anything of its subdir.
C28_FetchErrorBeforeListing ==
    /\ [](\A i \in Spawned :
            /\ source[SubdirOf(i)] = None => sub_pc[i] \in {"fetch_repodata", "err"}
            /\ sub_pc[i] = "fetch_repodata" \/ FetchFailed(i) =>
                  /\ repodata[i] = None
                  /\ available_packages[i] = {}
                  /\ NoPackageTask(i)
                  /\ \A o \in ops : o.subdir # SubdirOf(i))
    /\ [][\A i \in Spawned :
            /\ sub_pc[i] = "fetch_repodata" /\ sub_pc'[i] = "err" =>
                  sub_result'[i] = IoError("fetch_repodata")
            /\ FetchFailed(i) /\ run' = run =>
                  /\ sub_pc'[i] = "err" /\ sub_result'[i] = sub_result[i]
                  /\ dest_files'[SubdirOf(i)] = dest_files[SubdirOf(i)]
                  /\ dest_repodata'[SubdirOf(i)] = dest_repodata[SubdirOf(i)]]_vars

\* the source has no readable manifest for a listed subdir whose destination
\* holds archives; the task failed at the fetch and mirror returned its error
C28_Witness ==
    /\ mirror_pc = "err"
    /\ mirror_result = IoError("fetch_repodata")
    /\ \E i \in Spawned :
          /\ source[SubdirOf(i)] = None
          /\ FetchFailed(i)
          /\ AvailablePackages(dest_files[SubdirOf(i)]) # {}
          /\ dest_repodata[SubdirOf(i)] # None

\* the configuration errors of the job: a destination scheme that is neither
\* file nor s3, an s3 destination without S3 settings or without credentials
\* (supplied or stored), source S3 credentials for a source that is no s3 URL
DestinationUnsupported == config.destination.scheme \notin {"file", "s3"}
DestinationS3Incomplete ==
    /\ config.destination.scheme = "s3"
    /\ \/ config.s3_config_destination = None
       \/ config.s3_credentials_destination = None /\ auth_storage # AuthS3Credentials
SourceCredentialsMisplaced ==
    /\ config.s3_credentials_source # None
    /\ ~(config.source.variant = "Url" /\ config.source.scheme = "s3")
ConfigurationError ==
    DestinationUnsupported \/ DestinationS3Incomplete \/ SourceCredentialsMisplaced

\* C26: with a configuration error mirror() only ever returns a setup error:
\* it fetches no subdir list, dispatches no subdir task, nothing is listed,
\* no destination operation is completed, and no step changes a destination
\* file or manifest.
C26_ConfigErrorsBeforeMutation ==
    /\ [](ConfigurationError =>
            /\ mirror_pc \in {"start", "err"}
            /\ mirror_pc = "err" => mirror_result \in SetupErrors
            /\ subdirs = <<>> /\ probes = <<>>
            /\ \A i \in TaskIds :
                  /\ sub_pc[i] = "idle"
                  /\ repodata[i] = None
                  /\ available_packages[i] = {}
                  /\ NoPackageTask(i)
            /\ ops = {}
            /\ permits = pool)
    /\ [][ConfigurationError =>
            dest_files' = dest_files /\ dest_repodata' = dest_repodata]_vars

\* mirror() returned "Missing S3 credentials" for an s3 destination with S3
\* settings, no supplied credentials and a stored bearer token, while the
\* source has archives the destination lacks
C26_Witness ==
    /\ mirror_pc = "err"
    /\ mirror_result = SetupError("Missing S3 credentials")
    /\ DestinationS3Incomplete
    /\ config.s3_config_destination # None
    /\ auth_storage = AuthBearerToken
    /\ \E s \in PlatformSet :
          /\ source[s] # None
          /\ DOMAIN AllRecords(source[s][1]) \ AvailablePackages(dest_files[s]) # {}

=============================================================================
